---- MODULE Spec2Model ----
(***************************************************************************)
(* The API client of the baseball-stats frontend (services/auth.ts): the   *)
(* token store kept in localStorage, the request interceptor that attaches *)
(* the bearer token, and the response interceptor that answers a 401 with  *)
(* a refresh call and one retry.                                           *)
(*                                                                         *)
(* One step of the model is one task of the browser's event loop: the      *)
(* synchronous code of a handler together with the promise continuations   *)
(* it runs before the next network event is delivered.                     *)
(*                                                                         *)
(* Tokens are numbers; 0 stands for "no token" (localStorage.getItem       *)
(* returning null, or a field missing from a response).  Every token the   *)
(* authentication service issues is a fresh number.                        *)
(***************************************************************************)
EXTENDS Integers, FiniteSets, Sequences, TLC

\* Number of requests the application issues through apiClient.
NReq == 2

\* Tokens the authentication service can still issue: one per request at most.
MaxTok == NReq + 1

Reqs == 1..NReq
Tokens == 0..MaxTok

\* The status the response interceptor treats as an authorization failure.
Unauthorized == 401

\* Statuses of a failed answer: 401, a server error, and 0 for a network error
\* (error.response undefined).
ErrorStatuses == {Unauthorized, 500, 0}

Kinds == {"api", "login"}

VARIABLES
    store,      \* localStorage: [access |-> auth_token, refresh |-> refresh_token]
    req,        \* per request: its config, its position and its history
    nextTok,    \* the authentication service: next token to issue
    consumed,   \* the authentication service: refresh tokens already exchanged
    authState,  \* AuthProvider: [user, isAuthenticated, isLoading, error]
    loadPc,     \* AuthProvider: the mount-time loadUser: start, waitMe, done
    loginPc,    \* AuthProvider: login() and register(): idle, waitRegister,
                \* waitLogin, waitMe
    loginEnd,   \* AuthProvider: how the last login() or register() settled:
                \* none (login running), registering, resolved, rejected
    calledMe,   \* AuthProvider: loadUser has called getCurrentUser
    ctxOp,      \* AuthProvider: the last step taken by one of its operations
    list,       \* PlayerListPage: its useState values
    calls,      \* PlayerListPage: the getPlayers calls issued, in order
    pending,    \* PlayerListPage: the calls not yet answered
    issued      \* history: the requests in the order of their refresh calls

apiVars == <<store, req, nextTok, consumed>>

ctxVars == <<authState, loadPc, loginPc, loginEnd, calledMe, ctxOp>>

listVars == <<list, calls, pending>>

histVars == <<issued>>

vars == <<store, req, nextTok, consumed,
          authState, loadPc, loginPc, loginEnd, calledMe, ctxOp,
          list, calls, pending, issued>>

EmptyStore == [access |-> 0, refresh |-> 0]

NoPair == [access |-> 0, refresh |-> 0]

NewRequest ==
    [pc |-> "new",            \* new, inflight, refreshing, done
     kind |-> "api",
     retry |-> FALSE,         \* originalRequest._retry
     auth |-> 0,              \* config.headers.Authorization
     sends |-> 0,             \* times handed to the transport
     auth1 |-> 0,             \* Authorization of the first send
     tokAtSend |-> 0,         \* auth_token in the store at the last send
     refCalls |-> 0,          \* calls to the refresh endpoint made for it
     refRT |-> 0,             \* refresh_token put in the refresh call
     refPair |-> NoPair,      \* store contents when its 401 was handled
     refResp |-> NoPair,      \* tokens of the refresh answer
     refOutcome |-> "none",   \* none, pending, ok, rejected, rejectedReuse
     stale |-> FALSE,         \* logout() ran while its current call was in flight
     redirs |-> 0,            \* assignments of window.location.href = '/login'
     answers |-> 0,           \* answers received from the transport
     status |-> 200,          \* status of the last answer
     errStatus |-> -1,        \* ApiError.status given to the caller (0: undefined)
     result |-> "none"]       \* none, ok, ApiError, RefreshError, NoRefreshToken

----------------------------------------------------------------------------
\* tokenManager

getToken(s) == s.access

getRefreshToken(s) == s.refresh

setToken(s, t) == [s EXCEPT !.access = t]

setRefreshToken(s, t) == [s EXCEPT !.refresh = t]

\* Variant: only auth_token is removed.
clearTokens_OnlyAccess(s) == [s EXCEPT !.access = 0]

clearTokens(s) == [access |-> 0, refresh |-> 0]

\* Variant: logout forgets the refresh token.
logout_OnlyAccess(s) == [s EXCEPT !.access = 0]

\* logout() of the auth service
logout(s) == clearTokens(s)

----------------------------------------------------------------------------
\* Variant: the stored token is not attached.
RequestInterceptor_NoAttach(s, header) == header

\* Request interceptor: the Authorization header of a config about to be sent.
RequestInterceptor(s, header) ==
    IF getToken(s) # 0 THEN getToken(s) ELSE header

\* Variant: the refresh_token field of the answer is stored even when missing.
StoreAfterRefresh_AlwaysSet(s, access_token, newRefreshToken) ==
    setRefreshToken(setToken(s, access_token), newRefreshToken)

\* The store after a successful refresh answer.
StoreAfterRefresh(s, access_token, newRefreshToken) ==
    IF newRefreshToken # 0
    THEN setRefreshToken(setToken(s, access_token), newRefreshToken)
    ELSE setToken(s, access_token)

\* Variant: one marker shared by all requests of the client.
Handles401_SharedMarker(status, q) ==
    status = Unauthorized /\ \A r \in Reqs : ~req[r].retry

\* Variant: a server error starts a renewal as well.
Handles401_ServerError(status, q) ==
    status \in {Unauthorized, 500} /\ ~q.retry

\* Variant: every failed answer is treated as an authorization failure.
Handles401_AnyError(status, q) == ~q.retry

\* Variant: the _retry marker is not consulted.
Handles401_NoMarker(status, q) == status = Unauthorized

\* The 401 branch of the response interceptor is taken.
Handles401(status, q) == status = Unauthorized /\ ~q.retry

\* Variant: the config handed to the transport has lost the _retry marker.
Dispatch_ClearsMarker(s, q) ==
    [q EXCEPT !.pc = "inflight",
              !.retry = FALSE,
              !.auth = IF getToken(s) # 0 THEN getToken(s) ELSE q.auth,
              !.sends = q.sends + 1,
              !.auth1 = IF q.sends = 0
                        THEN (IF getToken(s) # 0 THEN getToken(s) ELSE q.auth)
                        ELSE q.auth1,
              !.tokAtSend = getToken(s)]

\* client(config): the request interceptor runs, the transport gets the request.
Dispatch(s, q) ==
    [q EXCEPT !.pc = "inflight",
              !.auth = RequestInterceptor(s, q.auth),
              !.sends = q.sends + 1,
              !.auth1 = IF q.sends = 0 THEN RequestInterceptor(s, q.auth) ELSE q.auth1,
              !.tokAtSend = getToken(s)]

\* Variant: the refresh call is made through the client (as refreshToken()
\* of lines 53-67 does), so its 401 answer is intercepted once.
RefreshIntercepted_ViaClient(q) == q.refCalls < 2

\* Whether a failed answer to the handler's refresh call runs the client's
\* response interceptor: the call is axios.post, not client.post, so never.
RefreshIntercepted(q) == FALSE

\* Variant: the catch block does not redirect.
CatchRefreshError_NoRedirect(q, err) ==
    [q EXCEPT !.pc = "done", !.result = err]

\* catch (refreshError): clear the tokens, redirect, reject with the error.
CatchRefreshError(q, err) ==
    [q EXCEPT !.pc = "done", !.redirs = q.redirs + 1, !.result = err]

----------------------------------------------------------------------------
\* PlayerListPage's initial useState values.  players, totalPages and
\* totalPlayers are set together from one answer: shown is the number of the
\* call whose answer they come from, 0 for the initial empty list.
initialList ==
    [mounted |-> FALSE,
     shown |-> 0, totalPages |-> 1,
     loading |-> TRUE, error |-> 0,
     currentPage |-> 1,
     search |-> "", position |-> "",
     sortBy |-> "player_name", sortOrder |-> "asc"]

\* AuthProvider's initial state; user and error: 0 is null, 1 is a value.
initialState ==
    [user |-> 0, isAuthenticated |-> FALSE, isLoading |-> TRUE, error |-> 0]

Init ==
    /\ store \in {EmptyStore, [access |-> 1, refresh |-> 1]}
    /\ req = [r \in Reqs |-> NewRequest]
    /\ nextTok = 2
    /\ consumed = {}
    /\ authState = initialState
    /\ loadPc = "start"
    /\ loginPc = "idle"
    /\ loginEnd = "none"
    /\ calledMe = FALSE
    /\ ctxOp = "none"
    /\ list = initialList
    /\ calls = <<>>
    /\ pending = {}
    /\ issued = <<>>

\* The request is waiting for a call whose 200 answer is written to the
\* store: the handler's refresh call, or the login call.
CallWritesTokens(q) ==
    \/ q.pc = "refreshing"
    \/ q.pc = "inflight" /\ q.kind = "login"

\* The application calls apiClient: an API call or the login call.
Send(r, k) ==
    /\ req[r].pc = "new"
    /\ IF r = 1 THEN TRUE ELSE req[r - 1].pc # "new"
    /\ req' = [req EXCEPT ![r] = Dispatch(store, [req[r] EXCEPT !.kind = k])]
    /\ UNCHANGED <<store, nextTok, consumed>>
    /\ UNCHANGED <<ctxVars, listVars, histVars>>

\* A 2xx answer: the response passes through; login() stores the tokens.
RespondOk(r) ==
    /\ req[r].pc = "inflight"
    /\ req' = [req EXCEPT ![r].pc = "done", ![r].result = "ok", ![r].status = 200,
                           ![r].answers = req[r].answers + 1,
                           ![r].stale = FALSE]
    /\ IF req[r].kind = "login"
       THEN /\ nextTok <= MaxTok
            /\ store' = setRefreshToken(setToken(store, nextTok), nextTok)
            /\ nextTok' = nextTok + 1
       ELSE UNCHANGED <<store, nextTok>>
    /\ UNCHANGED consumed
    /\ UNCHANGED <<ctxVars, listVars, histVars>>

\* A failed answer: the error handler of the response interceptor.
ResponseErrorHandler(r, status) ==
    /\ req[r].pc = "inflight"
    /\ IF Handles401(status, req[r])
       THEN IF getRefreshToken(store) = 0
            THEN /\ req' = [req EXCEPT ![r] =
                       CatchRefreshError([req[r] EXCEPT !.retry = TRUE,
                                                        !.status = status,
                                                        !.answers = req[r].answers + 1,
                                                        !.refPair = store,
                                                        !.stale = FALSE],
                                         "NoRefreshToken")]
                 /\ store' = clearTokens(store)
            ELSE /\ req' = [req EXCEPT ![r].retry = TRUE,
                                       ![r].status = status,
                                       ![r].answers = req[r].answers + 1,
                                       ![r].pc = "refreshing",
                                       ![r].refCalls = req[r].refCalls + 1,
                                       ![r].refRT = getRefreshToken(store),
                                       ![r].refPair = store,
                                       ![r].refOutcome = "pending",
                                       ![r].stale = FALSE]
                 /\ UNCHANGED store
       ELSE /\ req' = [req EXCEPT ![r].pc = "done",
                                  ![r].status = status,
                                  ![r].answers = req[r].answers + 1,
                                  ![r].errStatus = status,
                                  ![r].result = "ApiError",
                                  ![r].stale = FALSE]
            /\ UNCHANGED store
    /\ UNCHANGED <<nextTok, consumed>>
    /\ UNCHANGED <<ctxVars, listVars>>

RespondError(r, status) ==
    /\ ResponseErrorHandler(r, status)
    /\ UNCHANGED histVars

\* The same step, with the history of refresh calls kept.
RespondErrorRecorded(r, status) ==
    /\ ResponseErrorHandler(r, status)
    /\ issued' = IF req'[r].pc = "refreshing" THEN Append(issued, r) ELSE issued

\* The refresh endpoint answers 200, with or without a new refresh token:
\* the tokens are stored and the original request is sent again.
RefreshSucceed(r, rotate) ==
    /\ req[r].pc = "refreshing"
    /\ nextTok <= MaxTok
    /\ LET access_token == nextTok
           newRefreshToken == IF rotate THEN nextTok ELSE 0
           s2 == StoreAfterRefresh(store, access_token, newRefreshToken)
           q == [req[r] EXCEPT !.refOutcome = "ok",
                               !.refResp = [access |-> access_token,
                                            refresh |-> newRefreshToken],
                               !.auth = access_token,
                               !.stale = FALSE]
       IN /\ store' = s2
          /\ req' = [req EXCEPT ![r] = Dispatch(s2, q)]
    /\ nextTok' = nextTok + 1
    /\ consumed' = consumed \cup {req[r].refRT}
    /\ UNCHANGED <<ctxVars, listVars, histVars>>

\* The refresh endpoint rejects the call, or the call fails.
RefreshFail(r) ==
    /\ req[r].pc = "refreshing"
    /\ LET q == [req[r] EXCEPT !.refOutcome =
                                   IF req[r].refRT \in consumed
                                   THEN "rejectedReuse" ELSE "rejected",
                               !.stale = FALSE]
       IN IF RefreshIntercepted(req[r])
          THEN /\ req' = [req EXCEPT ![r] =
                              [q EXCEPT !.refCalls = q.refCalls + 1]]
               /\ UNCHANGED store
          ELSE /\ req' = [req EXCEPT ![r] =
                              CatchRefreshError(q, "RefreshError")]
               /\ store' = clearTokens(store)
    /\ UNCHANGED <<nextTok, consumed>>
    /\ UNCHANGED <<ctxVars, listVars, histVars>>

\* The application calls logout().  The refresh calls and login calls in
\* flight are not cancelled; each is marked as having been overtaken.
Logout ==
    /\ store' = logout(store)
    /\ req' = [r \in Reqs |-> IF CallWritesTokens(req[r])
                               THEN [req[r] EXCEPT !.stale = TRUE]
                               ELSE req[r]]
    /\ UNCHANGED <<nextTok, consumed>>
    /\ UNCHANGED <<ctxVars, listVars, histVars>>

Next ==
    \/ \E r \in Reqs, k \in Kinds : Send(r, k)
    \/ \E r \in Reqs : RespondOk(r)
    \/ \E r \in Reqs, s \in ErrorStatuses : RespondError(r, s)
    \/ \E r \in Reqs, rotate \in BOOLEAN : RefreshSucceed(r, rotate)
    \/ \E r \in Reqs : RefreshFail(r)
    \/ Logout

Spec == Init /\ [][Next]_vars

\* The transport answers request r.  The client is created with
\* timeout: 30000, so a request handed to it is always answered, at the latest
\* by the timeout error.  The refresh call is made with the bare axios object,
\* which has no timeout: nothing forces it to be answered.
Respond(r) ==
    \/ RespondOk(r)
    \/ \E s \in ErrorStatuses : RespondError(r, s)

LiveSpec == Init /\ [][Next]_vars /\ \A r \in Reqs : WF_vars(Respond(r))

\* The client with the order of the refresh calls recorded.
OrderNext ==
    \/ \E r \in Reqs, k \in Kinds : Send(r, k)
    \/ \E r \in Reqs : RespondOk(r)
    \/ \E r \in Reqs, s \in ErrorStatuses : RespondErrorRecorded(r, s)
    \/ \E r \in Reqs, rotate \in BOOLEAN : RefreshSucceed(r, rotate)
    \/ \E r \in Reqs : RefreshFail(r)
    \/ Logout

OrderSpec == Init /\ [][OrderNext]_vars

\* The position of request r's refresh call among the refresh calls issued.
IssuedAt(r) == CHOOSE i \in 1..Len(issued) : issued[i] = r

----------------------------------------------------------------------------
(***************************************************************************)
(* AuthProvider (contexts/AuthContext.tsx).  Its calls to the auth service *)
(* go through apiClient; here a call is reduced to its outcome and to what *)
(* the interceptors did to the store on the way:                           *)
(*   "ok"       answered 2xx                                               *)
(*   "renewed"  answered 401, renewed, retried and answered 2xx            *)
(*   "error"    rejected as ApiError, store untouched                      *)
(*   "cleared"  rejected by the catch block of the 401 branch, store       *)
(*              cleared                                                    *)
(***************************************************************************)
OkOutcomes == {"ok", "renewed"}
FailOutcomes == {"error", "cleared"}

\* What a call through apiClient with this outcome leaves in the store.
StoreAfterCall(s, outcome, tok) ==
    CASE outcome = "renewed" -> StoreAfterRefresh(s, tok, 0)
      [] outcome = "cleared" -> clearTokens(s)
      [] OTHER -> s

\* The outcome can happen: a renewal needs a refresh token and a fresh token.
CanHappen(outcome) ==
    outcome = "renewed" => (getRefreshToken(store) # 0 /\ nextTok <= MaxTok)

TokAfterCall(outcome) == IF outcome = "renewed" THEN nextTok + 1 ELSE nextTok

\* Variant: tokens are always reported as stored.
hasStoredTokens_Always(s) == TRUE

hasStoredTokens(s) == getToken(s) # 0

\* setState((prev) => ({ ...prev, ...updates }))
updateState(prev, updates) ==
    [k \in DOMAIN prev |-> IF k \in DOMAIN updates THEN updates[k] ELSE prev[k]]

\* The updates the operations of AuthProvider make.
LoadUserSuccess(st) ==
    updateState(st, [user |-> 1, isAuthenticated |-> TRUE, isLoading |-> FALSE])

LoadUserCatch(st) == updateState(st, [isLoading |-> FALSE])

LoginBegin(st) == updateState(st, [isLoading |-> TRUE, error |-> 0])

LoginSuccess(st) ==
    updateState(st, [user |-> 1, isAuthenticated |-> TRUE, isLoading |-> FALSE])

\* Variant: the catch block leaves isLoading set.
LoginCatch_StillLoading(st) == updateState(st, [error |-> 1])

LoginCatch(st) == updateState(st, [error |-> 1, isLoading |-> FALSE])

\* Variant: logout leaves isAuthenticated set.
LogoutUpdate_KeepsAuth(st) ==
    updateState(st, [user |-> 0, error |-> 0])

\* Variant: logout keeps the error.
LogoutUpdate_KeepsError(st) ==
    updateState(st, [user |-> 0, isAuthenticated |-> FALSE])

LogoutUpdate(st) ==
    updateState(st, [user |-> 0, isAuthenticated |-> FALSE, error |-> 0])

\* The effect on mount: loadUser up to its first await.
LoadStart ==
    /\ loadPc = "start"
    /\ IF ~hasStoredTokens(store)
       THEN /\ authState' = updateState(authState, [isLoading |-> FALSE])
            /\ loadPc' = "done"
            /\ UNCHANGED calledMe
       ELSE /\ loadPc' = "waitMe"
            /\ calledMe' = TRUE
            /\ UNCHANGED authState
    /\ ctxOp' = "LoadStart"
    /\ UNCHANGED <<listVars, histVars>>
    /\ UNCHANGED <<store, req, nextTok, consumed, loginPc, loginEnd>>

\* loadUser: getCurrentUser resolved.
LoadMeOk(o) ==
    /\ loadPc = "waitMe"
    /\ CanHappen(o)
    /\ store' = StoreAfterCall(store, o, nextTok)
    /\ nextTok' = TokAfterCall(o)
    /\ authState' = LoadUserSuccess(authState)
    /\ loadPc' = "done"
    /\ ctxOp' = "LoadMeOk"
    /\ UNCHANGED <<listVars, histVars>>
    /\ UNCHANGED <<req, consumed, loginPc, loginEnd, calledMe>>

\* loadUser: getCurrentUser rejected; the catch block logs out.
LoadMeFail(o) ==
    /\ loadPc = "waitMe"
    /\ store' = logout(StoreAfterCall(store, o, nextTok))
    /\ authState' = LoadUserCatch(authState)
    /\ loadPc' = "done"
    /\ ctxOp' = "LoadMeFail"
    /\ UNCHANGED <<listVars, histVars>>
    /\ UNCHANGED <<req, nextTok, consumed, loginPc, loginEnd, calledMe>>

\* login() is called: the login form submits, which it allows while isLoading
\* is false.
LoginStart ==
    /\ loadPc # "start"
    /\ loginPc = "idle"
    /\ ~authState.isLoading
    /\ authState' = LoginBegin(authState)
    /\ loginPc' = "waitLogin"
    /\ loginEnd' = "none"
    /\ ctxOp' = "LoginStart"
    /\ UNCHANGED <<listVars, histVars>>
    /\ UNCHANGED <<store, req, nextTok, consumed, loadPc, calledMe>>

\* authService.login resolved: the tokens are stored, getCurrentUser is called.
LoginTokenOk ==
    /\ loginPc = "waitLogin"
    /\ nextTok <= MaxTok
    /\ store' = setRefreshToken(setToken(store, nextTok), nextTok)
    /\ nextTok' = nextTok + 1
    /\ loginPc' = "waitMe"
    /\ ctxOp' = "LoginTokenOk"
    /\ UNCHANGED <<listVars, histVars>>
    /\ UNCHANGED <<req, consumed, authState, loadPc, loginEnd, calledMe>>

\* authService.login rejected.
LoginTokenFail(o) ==
    /\ loginPc = "waitLogin"
    /\ store' = StoreAfterCall(store, o, nextTok)
    /\ authState' = LoginCatch(authState)
    /\ loginPc' = "idle"
    /\ loginEnd' = "rejected"
    /\ ctxOp' = "LoginTokenFail"
    /\ UNCHANGED <<listVars, histVars>>
    /\ UNCHANGED <<req, nextTok, consumed, loadPc, calledMe>>

\* login(): getCurrentUser resolved.
LoginMeOk(o) ==
    /\ loginPc = "waitMe"
    /\ CanHappen(o)
    /\ store' = StoreAfterCall(store, o, nextTok)
    /\ nextTok' = TokAfterCall(o)
    /\ authState' = LoginSuccess(authState)
    /\ loginPc' = "idle"
    /\ loginEnd' = "resolved"
    /\ ctxOp' = "LoginMeOk"
    /\ UNCHANGED <<listVars, histVars>>
    /\ UNCHANGED <<req, consumed, loadPc, calledMe>>

\* login(): getCurrentUser rejected.
LoginMeFail(o) ==
    /\ loginPc = "waitMe"
    /\ store' = StoreAfterCall(store, o, nextTok)
    /\ authState' = LoginCatch(authState)
    /\ loginPc' = "idle"
    /\ loginEnd' = "rejected"
    /\ ctxOp' = "LoginMeFail"
    /\ UNCHANGED <<listVars, histVars>>
    /\ UNCHANGED <<req, nextTok, consumed, loadPc, calledMe>>

\* register() is called: the registration form submits, which it allows
\* while isLoading is false.  After authService.register resolves, register()
\* goes on as login() does: authService.login, then getCurrentUser, with the
\* same updates on success and in its catch block.
RegisterStart ==
    /\ loadPc # "start"
    /\ loginPc = "idle"
    /\ ~authState.isLoading
    /\ authState' = LoginBegin(authState)
    /\ loginPc' = "waitRegister"
    /\ loginEnd' = "registering"
    /\ ctxOp' = "RegisterStart"
    /\ UNCHANGED <<listVars, histVars>>
    /\ UNCHANGED <<store, req, nextTok, consumed, loadPc, calledMe>>

\* authService.register resolved: authService.login is called.
RegisterOk(o) ==
    /\ loginPc = "waitRegister"
    /\ CanHappen(o)
    /\ store' = StoreAfterCall(store, o, nextTok)
    /\ nextTok' = TokAfterCall(o)
    /\ loginPc' = "waitLogin"
    /\ ctxOp' = "RegisterOk"
    /\ UNCHANGED <<listVars, histVars>>
    /\ UNCHANGED <<req, consumed, authState, loadPc, loginEnd, calledMe>>

\* authService.register rejected.
RegisterFail(o) ==
    /\ loginPc = "waitRegister"
    /\ store' = StoreAfterCall(store, o, nextTok)
    /\ authState' = LoginCatch(authState)
    /\ loginPc' = "idle"
    /\ loginEnd' = "rejected"
    /\ ctxOp' = "RegisterFail"
    /\ UNCHANGED <<listVars, histVars>>
    /\ UNCHANGED <<req, nextTok, consumed, loadPc, calledMe>>

\* clearError(): the forms call it on every input change; their inputs are
\* disabled while isLoading is true.
ClearError ==
    /\ loadPc # "start"
    /\ ~authState.isLoading
    /\ authState' = updateState(authState, [error |-> 0])
    /\ ctxOp' = "clearError"
    /\ UNCHANGED <<listVars, histVars>>
    /\ UNCHANGED <<store, req, nextTok, consumed, loadPc, loginPc, loginEnd, calledMe>>

\* logout() of the context: the navigation bar offers it while
\* isAuthenticated is true.
AuthLogout ==
    /\ loadPc # "start"
    /\ authState.isAuthenticated
    /\ store' = logout(store)
    /\ authState' = LogoutUpdate(authState)
    /\ ctxOp' = "logout"
    /\ UNCHANGED <<listVars, histVars>>
    /\ UNCHANGED <<req, nextTok, consumed, loadPc, loginPc, loginEnd, calledMe>>

\* The 401 branch of some other request of the page fails its renewal and
\* clears the tokens.
ApiClears ==
    /\ loadPc # "start"
    /\ store # EmptyStore
    /\ store' = clearTokens(store)
    /\ ctxOp' = "ApiClears"
    /\ UNCHANGED <<listVars, histVars>>
    /\ UNCHANGED <<req, nextTok, consumed, authState, loadPc, loginPc, loginEnd, calledMe>>

AuthNext ==
    \/ LoadStart
    \/ \E o \in OkOutcomes : LoadMeOk(o)
    \/ \E o \in FailOutcomes : LoadMeFail(o)
    \/ LoginStart
    \/ LoginTokenOk
    \/ \E o \in FailOutcomes : LoginTokenFail(o)
    \/ \E o \in OkOutcomes : LoginMeOk(o)
    \/ \E o \in FailOutcomes : LoginMeFail(o)
    \/ RegisterStart
    \/ \E o \in OkOutcomes : RegisterOk(o)
    \/ \E o \in FailOutcomes : RegisterFail(o)
    \/ ClearError
    \/ AuthLogout
    \/ ApiClears

AuthSpec == Init /\ [][AuthNext]_vars

----------------------------------------------------------------------------
(***************************************************************************)
(* PlayerListPage (pages/players/PlayerListPage.tsx).  A step is an event  *)
(* handler, the render that follows and the effect that calls fetchPlayers *)
(* when one of its dependencies has changed.                               *)
(***************************************************************************)
\* getPlayers calls the page may issue.
MaxCalls == 3

\* Pages the server may report.
MaxPage == 2

SearchTexts == {"", "a"}
PositionValues == {"", "C"}
SortFields == {"player_name", "hits"}

\* The dependencies of fetchPlayers.
FetchDeps(l) == <<l.currentPage, l.search, l.position, l.sortBy, l.sortOrder>>

\* params of fetchPlayers
FetchParams(l) ==
    [page |-> l.currentPage, search |-> l.search, position |-> l.position,
     sort_by |-> l.sortBy, sort_order |-> l.sortOrder]

\* Variant: the search handler leaves the page where it was.
handleSearchChange_KeepsPage(l, value) == [l EXCEPT !.search = value]

handleSearchChange(l, value) == [l EXCEPT !.search = value, !.currentPage = 1]

handlePositionChange(l, value) == [l EXCEPT !.position = value, !.currentPage = 1]

handleSortChange(l, value) ==
    IF value = l.sortBy
    THEN [l EXCEPT !.sortOrder = IF l.sortOrder = "asc" THEN "desc" ELSE "asc",
                   !.currentPage = 1]
    ELSE [l EXCEPT !.sortBy = value, !.sortOrder = "asc", !.currentPage = 1]

\* The pagination block is rendered.
PaginationShown(l) == ~l.loading /\ l.error = 0 /\ l.totalPages > 1

\* The render after a handler: the effect runs fetchPlayers when a dependency
\* has changed; fetchPlayers sets loading, clears error and calls getPlayers.
Rerender(l2) ==
    /\ list.mounted
    /\ IF FetchDeps(l2) # FetchDeps(list)
       THEN /\ Len(calls) < MaxCalls
            /\ list' = [l2 EXCEPT !.loading = TRUE, !.error = 0]
            /\ calls' = Append(calls, FetchParams(l2))
            /\ pending' = pending \cup {Len(calls) + 1}
       ELSE /\ list' = l2
            /\ UNCHANGED <<calls, pending>>
    /\ UNCHANGED <<apiVars, ctxVars, histVars>>

\* The effect on mount.
ListMount ==
    /\ ~list.mounted
    /\ list' = [list EXCEPT !.mounted = TRUE, !.loading = TRUE, !.error = 0]
    /\ calls' = Append(calls, FetchParams(list))
    /\ pending' = pending \cup {Len(calls) + 1}
    /\ UNCHANGED <<apiVars, ctxVars, histVars>>

\* onChange of the search input.
SearchChange(value) ==
    /\ value # list.search
    /\ Rerender(handleSearchChange(list, value))

\* onChange of the position select.
PositionChange(value) ==
    /\ value # list.position
    /\ Rerender(handlePositionChange(list, value))

\* onChange of the sort select.
SortChange(value) ==
    /\ value # list.sortBy
    /\ Rerender(handleSortChange(list, value))

\* The sort order button.
ToggleOrder ==
    Rerender([list EXCEPT !.sortOrder = IF list.sortOrder = "asc" THEN "desc" ELSE "asc"])

\* The Previous button.
PrevPage ==
    /\ PaginationShown(list)
    /\ list.currentPage # 1
    /\ Rerender([list EXCEPT !.currentPage = list.currentPage - 1])

\* The Next button.
NextPage ==
    /\ PaginationShown(list)
    /\ list.currentPage # list.totalPages
    /\ list.currentPage < MaxPage
    /\ Rerender([list EXCEPT !.currentPage = list.currentPage + 1])

\* getPlayers call c resolves with a response of that many pages.
PlayersOk(c, pages) ==
    /\ c \in pending
    /\ pending' = pending \ {c}
    /\ list' = [list EXCEPT !.shown = c, !.totalPages = pages, !.loading = FALSE]
    /\ UNCHANGED <<calls, apiVars, ctxVars, histVars>>

\* getPlayers call c is rejected.
PlayersFail(c) ==
    /\ c \in pending
    /\ pending' = pending \ {c}
    /\ list' = [list EXCEPT !.error = 1, !.loading = FALSE]
    /\ UNCHANGED <<calls, apiVars, ctxVars, histVars>>

ListNext ==
    \/ ListMount
    \/ \E v \in SearchTexts : SearchChange(v)
    \/ \E v \in PositionValues : PositionChange(v)
    \/ \E v \in SortFields : SortChange(v)
    \/ ToggleOrder
    \/ PrevPage
    \/ NextPage
    \/ \E c \in 1..MaxCalls, pages \in 1..MaxPage : PlayersOk(c, pages)
    \/ \E c \in 1..MaxCalls : PlayersFail(c)

ListSpec == Init /\ [][ListNext]_vars

----------------------------------------------------------------------------
\* Two requests whose 401 was handled against the same stored pair, one that
\* holds a refresh token.  Tokens are fresh, so the store never returns to a
\* pair it has left: the two handlers ran before either renewal was answered.
SameEpisode(r1, r2) ==
    /\ r1 # r2
    /\ req[r1].retry /\ req[r2].retry
    /\ req[r1].refPair = req[r2].refPair
    /\ req[r1].refPair.refresh # 0

\* The request has been sent again after a renewal.
Retried(r) == req[r].sends = 2

\* C1 - single-flight: requests sent with the same credential whose 401s are
\* handled against the same stored pair cause exactly one call to the refresh
\* endpoint between them, and their retries carry the same access token.
C1_SingleFlight ==
    \A r1, r2 \in Reqs :
        (SameEpisode(r1, r2) /\ req[r1].auth1 = req[r2].auth1) =>
            /\ req[r1].refCalls + req[r2].refCalls = 1
            /\ (Retried(r1) /\ Retried(r2)) => req[r1].auth = req[r2].auth

\* C2 - at most one renewal call is outstanding in every reachable state.
C2_AtMostOneRenewalInFlight ==
    Cardinality({r \in Reqs : req[r].pc = "refreshing"}) <= 1

\* C3 - requests that met their 401 during the same renewal episode observe
\* the same outcome: never one renewed and retried while another is rejected
\* with a refresh failure.
C3_SameRenewalOutcome ==
    \A r1, r2 \in Reqs :
        SameEpisode(r1, r2) =>
            ~(req[r1].refOutcome = "ok" /\ req[r2].result = "RefreshError")

\* C4 - transparent renewal with a refresh endpoint that accepts a refresh
\* token once: when a request's renewal call is rejected only because a
\* concurrent request of the same episode has already exchanged the token,
\* the store is not cleared, nothing redirects and the request is retried.
C4_TransparentRenewal ==
    [][\A r \in Reqs :
          (/\ req[r].pc = "refreshing"
           /\ req'[r].refOutcome = "rejectedReuse"
           /\ \E r1 \in Reqs : SameEpisode(r1, r) /\ req[r1].refOutcome = "ok")
          => (/\ store' # EmptyStore
              /\ req'[r].redirs = 0
              /\ req'[r].pc = "inflight")]_vars

\* C5 - no infinite retry: a request reaches the transport at most twice and
\* causes at most one refresh call; a 401 answer to the second send ends the
\* request with a rejection.
C5_NoInfiniteRetry ==
    \A r \in Reqs :
        /\ req[r].sends <= 2
        /\ req[r].refCalls <= 1
        /\ (req[r].answers = 2 /\ req[r].status = Unauthorized) =>
               (req[r].pc = "done" /\ req[r].result = "ApiError" /\ req[r].sends = 2)

C5_Witness ==
    \E r \in Reqs :
        /\ req[r].answers = 2 /\ req[r].status = Unauthorized
        /\ req[r].pc = "done" /\ req[r].refCalls = 1

\* C6 - idempotent logout notification: the requests whose renewal failed in
\* one episode produce one session-loss notification between them.
C6_OneNotificationPerEpisode ==
    \A r1, r2 \in Reqs :
        (/\ SameEpisode(r1, r2)
         /\ req[r1].result = "RefreshError"
         /\ req[r2].result = "RefreshError")
        => req[r1].redirs + req[r2].redirs = 1

\* C7 - credential attach: a request on the transport carries the access token
\* that was in the store when it was sent (no header when there was none), and
\* a retried request carries the access token of its renewal, which is not the
\* one its first send carried.
C7_CredentialAttach ==
    \A r \in Reqs :
        /\ req[r].sends > 0 => req[r].auth = req[r].tokAtSend
        /\ Retried(r) => (/\ req[r].auth = req[r].refResp.access
                          /\ req[r].auth # req[r].auth1)

C7_Witness ==
    \E r \in Reqs :
        /\ Retried(r) /\ req[r].auth1 = 1 /\ req[r].auth > 1
        /\ \E r2 \in Reqs : req[r2].sends = 1 /\ req[r2].auth = 0

\* C8 - no-credential case: a first 401 handled while the store is empty ends
\* the request with the no-refresh-token failure, makes no refresh call,
\* produces exactly one notification and leaves the store empty.
C8_NoCredential ==
    [][\A r \in Reqs :
          (/\ store = EmptyStore
           /\ req[r].pc = "inflight" /\ ~req[r].retry
           /\ req'[r].answers = req[r].answers + 1
           /\ req'[r].status = Unauthorized)
          => (/\ req'[r].result = "NoRefreshToken"
              /\ req'[r].pc = "done"
              /\ req'[r].refCalls = 0
              /\ req'[r].redirs = req[r].redirs + 1
              /\ req'[r].redirs = 1
              /\ store' = EmptyStore)]_vars

C8_Witness ==
    \E r \in Reqs :
        /\ req[r].result = "NoRefreshToken"
        /\ req[r].refPair = EmptyStore
        /\ req[r].redirs = 1
        /\ store = EmptyStore

\* C9 - renewal failure: when the renewal call of a request is rejected, both
\* tokens are removed, one notification is produced, the request is not sent
\* again and its result is the refresh failure, not the 401 of its first answer.
C9_RenewalFailure ==
    [][\A r \in Reqs :
          (/\ req[r].pc = "refreshing"
           /\ req'[r].refOutcome \in {"rejected", "rejectedReuse"})
          => (/\ store' = EmptyStore
              /\ req'[r].redirs = req[r].redirs + 1
              /\ req'[r].sends = req[r].sends
              /\ req'[r].pc = "done"
              /\ req'[r].result = "RefreshError")]_vars

C9_Witness ==
    \E r \in Reqs :
        /\ req[r].result = "RefreshError"
        /\ req[r].refPair.refresh # 0
        /\ req[r].sends = 1
        /\ store = EmptyStore

\* C10 as stated - after a renewal call returns, the store holds exactly the
\* pair of the answer, a missing refresh token included.
C10_StoreIsAnswer ==
    [][\A r \in Reqs :
          (req[r].pc = "refreshing" /\ req'[r].refOutcome = "ok")
          => store' = req'[r].refResp]_vars

\* C10 amended - after a renewal call returns, the store holds the access
\* token of the answer, and the refresh token of the answer when it has one;
\* otherwise the stored refresh token is left as it was.
C10_StoreAfterRenewal ==
    [][\A r \in Reqs :
          (req[r].pc = "refreshing" /\ req'[r].refOutcome = "ok")
          => (/\ store'.access = req'[r].refResp.access
              /\ store'.refresh = IF req'[r].refResp.refresh # 0
                                  THEN req'[r].refResp.refresh
                                  ELSE store.refresh)]_vars

C10_Witness ==
    \E r \in Reqs :
        /\ req[r].refOutcome = "ok"
        /\ req[r].refResp.refresh = 0
        /\ store.access = req[r].refResp.access
        /\ store.refresh = req[r].refRT
        /\ store.refresh # 0

\* C11 - credential pair invariant: the store holds an access token and a
\* refresh token, or neither.
C11_PairInvariant ==
    (store.access = 0) <=> (store.refresh = 0)

\* C12 - retry exactly once on success: after a successful renewal the request
\* is on the transport for the second time, and the answer to that second send
\* settles the request with that answer's outcome: no further send, no further
\* refresh call.
C12_RetryOnceOnSuccess ==
    [][\A r \in Reqs :
          /\ (req[r].pc = "refreshing" /\ req'[r].refOutcome = "ok")
             => (req'[r].pc = "inflight" /\ req'[r].sends = req[r].sends + 1
                 /\ req'[r].sends = 2)
          /\ (/\ req[r].refOutcome = "ok" /\ req[r].pc = "inflight"
              /\ req'[r].answers = req[r].answers + 1)
             => (/\ req'[r].pc = "done"
                 /\ req'[r].sends = 2
                 /\ req'[r].refCalls = 1
                 /\ req'[r].result = IF req'[r].status = 200 THEN "ok" ELSE "ApiError"
                 /\ req'[r].status # 200 => req'[r].errStatus = req'[r].status)]_vars

C12_Witness ==
    /\ \E r \in Reqs : req[r].refOutcome = "ok" /\ req[r].answers = 2
                       /\ req[r].result = "ok"
    /\ \E r \in Reqs : req[r].refOutcome = "ok" /\ req[r].answers = 2
                       /\ req[r].result = "ApiError"

\* C13 - non-auth passthrough: a failed answer that is not a 401 (another
\* status, or no response at all) settles the request with an ApiError of that
\* status, causes no refresh call and leaves the store alone.
C13_NonAuthPassthrough ==
    [][\A r \in Reqs :
          (/\ req[r].pc = "inflight"
           /\ req'[r].answers = req[r].answers + 1
           /\ req'[r].status \notin {200, Unauthorized})
          => (/\ req'[r].pc = "done"
              /\ req'[r].result = "ApiError"
              /\ req'[r].errStatus = req'[r].status
              /\ req'[r].refCalls = req[r].refCalls
              /\ req'[r].redirs = req[r].redirs
              /\ store' = store)]_vars

C13_Witness ==
    /\ \E r \in Reqs : req[r].result = "ApiError" /\ req[r].errStatus = 500
                       /\ req[r].refCalls = 0
    /\ \E r \in Reqs : req[r].result = "ApiError" /\ req[r].errStatus = 0
                       /\ req[r].refCalls = 0

\* C14 - explicit logout: a step in which the store changes while no answer
\* arrives is a logout; it leaves the store empty, and no request moves: no
\* send, no refresh call, nothing set in progress.
C14_LogoutClears ==
    [][(/\ store' # store
        /\ \A r \in Reqs : /\ req'[r].answers = req[r].answers
                           /\ req'[r].refOutcome = req[r].refOutcome)
       => (/\ store' = EmptyStore
           /\ \A r \in Reqs : /\ req'[r].sends = req[r].sends
                              /\ req'[r].refCalls = req[r].refCalls
                              /\ req'[r].pc = req[r].pc)]_vars

C14_Witness ==
    /\ store = EmptyStore
    /\ \E r \in Reqs : req[r].pc = "inflight" /\ req[r].auth1 = 1
                       /\ req[r].answers = 0

\* C15 - retry exhausted: a request whose second send, made after a successful
\* renewal, is answered 401 ends with a failure kind of its own, none of the
\* kinds the other outcomes of a request have.
C15_RetryExhaustedDistinct ==
    \A r \in Reqs :
        (/\ req[r].pc = "done" /\ req[r].refOutcome = "ok"
         /\ req[r].answers = 2 /\ req[r].status = Unauthorized)
        => req[r].result \notin {"ok", "ApiError", "RefreshError", "NoRefreshToken"}

\* C16 - every request that has been sent eventually settles, also when the
\* refresh endpoint never answers.
C16_EverySendSettles ==
    \A r \in Reqs : (req[r].pc \in {"inflight", "refreshing"}) ~> (req[r].pc = "done")

\* C17 - initial load: mounting without a stored access token ends the load at
\* once, with isLoading false, no call to getCurrentUser and the state still
\* unauthenticated; mounting with one calls getCurrentUser, whose success gives
\* user set, isAuthenticated true, isLoading false, and whose failure empties
\* the store and gives isLoading false with isAuthenticated false.
C17_InitialLoad ==
    [][/\ (ctxOp' = "LoadStart" /\ loadPc = "start" /\ getToken(store) = 0)
          => (/\ loadPc' = "done" /\ ~calledMe'
              /\ ~authState'.isLoading
              /\ ~authState'.isAuthenticated /\ authState'.user = 0)
       /\ (ctxOp' = "LoadStart" /\ loadPc = "start" /\ getToken(store) # 0)
          => (loadPc' = "waitMe" /\ calledMe' /\ authState' = authState)
       /\ (ctxOp' = "LoadMeOk" /\ loadPc = "waitMe")
          => (/\ authState'.user = 1 /\ authState'.isAuthenticated
              /\ ~authState'.isLoading /\ loadPc' = "done")
       /\ (ctxOp' = "LoadMeFail" /\ loadPc = "waitMe")
          => (/\ store' = EmptyStore
              /\ ~authState'.isLoading /\ ~authState'.isAuthenticated
              /\ loadPc' = "done")]_vars

C17_Witness ==
    /\ ctxOp = "LoadMeFail" /\ calledMe
    /\ store = EmptyStore /\ ~authState.isLoading /\ ~authState.isAuthenticated

\* C18 - logout of the context, in whatever state it is called, leaves the
\* store empty, user null, isAuthenticated false and error null.
C18_ContextLogout ==
    [][ctxOp' = "logout"
       => (/\ store' = EmptyStore
           /\ authState'.user = 0
           /\ ~authState'.isAuthenticated
           /\ authState'.error = 0)]_vars

C18_Witness ==
    /\ ctxOp = "logout" /\ store = EmptyStore /\ authState.user = 0
    /\ ~authState.isAuthenticated /\ authState.error = 0
    /\ loginPc = "waitMe"

\* C19 - login of the context: it starts with isLoading true and error null;
\* a resolved login call stores both tokens, and when getCurrentUser resolves
\* too the state is user set, isAuthenticated true, isLoading false and the
\* call resolves; when either call is rejected, error is set, isLoading is
\* false, isAuthenticated is left as it was and the call is rejected.
C19_ContextLogin ==
    [][/\ ctxOp' = "LoginStart" /\ loginPc = "idle"
          => (authState'.isLoading /\ authState'.error = 0)
       /\ ctxOp' = "LoginTokenOk" /\ loginPc = "waitLogin"
          => (store'.access # 0 /\ store'.refresh # 0 /\ loginPc' = "waitMe")
       /\ ctxOp' = "LoginMeOk" /\ loginPc = "waitMe"
          => (/\ authState'.user = 1 /\ authState'.isAuthenticated
              /\ ~authState'.isLoading /\ loginEnd' = "resolved")
       /\ ctxOp' \in {"LoginTokenFail", "LoginMeFail"} /\ loginPc # "idle"
          => (/\ authState'.error # 0 /\ ~authState'.isLoading
              /\ authState'.isAuthenticated = authState.isAuthenticated
              /\ loginEnd' = "rejected")]_vars

C19_Witness ==
    /\ ctxOp = "LoginMeFail" /\ loginEnd = "rejected"
    /\ authState.error = 1 /\ ~authState.isLoading /\ ~authState.isAuthenticated

\* C20 - every change of the search text, the position filter or the sort
\* field sets currentPage to 1 and issues the next getPlayers call with page 1,
\* whatever the page was.
C20_FilterResetsPage ==
    [][(\/ list'.search # list.search
        \/ list'.position # list.position
        \/ list'.sortBy # list.sortBy)
       => (/\ list'.currentPage = 1
           /\ Len(calls') = Len(calls) + 1
           /\ calls'[Len(calls')].page = 1
           /\ calls'[Len(calls')].search = list'.search
           /\ calls'[Len(calls')].position = list'.position
           /\ calls'[Len(calls')].sort_by = list'.sortBy)]_vars

C20_Witness ==
    /\ Len(calls) >= 2
    /\ calls[Len(calls) - 1].page = 2
    /\ calls[Len(calls)].page = 1
    /\ calls[Len(calls)].search # calls[Len(calls) - 1].search
    /\ list.currentPage = 1

\* C21: a request that ends in success or in a failure other than 401 leaves
\* the store as it was and causes no redirect and no refresh call; a step
\* that changes the store is logout, the 200 answer to a login call, or a step
\* of a request whose last answer was a 401 taken by the 401 branch.
C21_FrameEffect ==
    [][ /\ \A r \in Reqs :
              ( /\ req'[r].answers = req[r].answers + 1
                /\ \/ req'[r].status = 200 /\ req[r].kind # "login"
                   \/ req'[r].status \notin {200, Unauthorized} )
              => /\ store' = store
                 /\ req'[r].redirs = req[r].redirs
                 /\ req'[r].refCalls = req[r].refCalls
        /\ store' # store
              => \/ \A r \in Reqs : [req'[r] EXCEPT !.stale = req[r].stale] = req[r]
                 \/ \E r \in Reqs : /\ req[r].kind = "login"
                                    /\ req'[r].answers = req[r].answers + 1
                                    /\ req'[r].status = 200
                 \/ \E r \in Reqs : /\ req'[r] # req[r]
                                    /\ req'[r].status = Unauthorized
                                    /\ req'[r].retry ]_vars

\* One call has ended in success and another in a server error, and the
\* store still holds the pair it started with.
C21_Witness ==
    \E r1, r2 \in Reqs :
        /\ req[r1].result = "ok" /\ req[r1].kind = "api" /\ req[r1].sends = 1
        /\ req[r2].result = "ApiError" /\ req[r2].errStatus = 500
        /\ req[r1].redirs = 0 /\ req[r2].redirs = 0
        /\ store = [access |-> 1, refresh |-> 1]

\* C22: the _retry marker is per request: once set it stays set, and a
\* request whose first answer is a 401 while a refresh token is stored gets
\* its own refresh call and, when that call succeeds, its own single resend,
\* whatever the markers of the other requests are.
C22_MarkerPerRequest ==
    [][\A r \in Reqs :
          /\ req[r].retry => req'[r].retry
          /\ ( /\ req[r].pc = "inflight" /\ ~req[r].retry
               /\ req'[r].answers = req[r].answers + 1
               /\ req'[r].status = Unauthorized
               /\ getRefreshToken(store) # 0 )
             => /\ req'[r].pc = "refreshing"
                /\ req'[r].retry
                /\ req'[r].refCalls = 1
          /\ ( /\ req[r].pc = "refreshing"
               /\ req[r].refOutcome = "pending"
               /\ req'[r].refOutcome = "ok" )
             => /\ req'[r].pc = "inflight"
                /\ req'[r].sends = 2 ]_vars

\* Two requests got a 401 on the same stored pair, and each has had its own
\* refresh call and its own resend.
C22_Witness ==
    \E r1, r2 \in Reqs :
        /\ r1 # r2
        /\ req[r1].retry /\ req[r2].retry
        /\ req[r1].refPair = req[r2].refPair
        /\ req[r1].refCalls = 1 /\ req[r2].refCalls = 1
        /\ req[r1].sends = 2 /\ req[r2].sends = 2

\* C24: a 401 answer to the login call is the caller's login failure: the
\* call ends with the 401 as its error, with no refresh call, no redirect and
\* the store as it was.
C24_LoginFailurePassthrough ==
    [][\A r \in Reqs :
          ( /\ req[r].kind = "login"
            /\ req[r].pc = "inflight"
            /\ req'[r].answers = req[r].answers + 1
            /\ req'[r].status = Unauthorized )
          => /\ req'[r].pc = "done"
             /\ req'[r].result = "ApiError"
             /\ req'[r].errStatus = Unauthorized
             /\ req'[r].refCalls = 0
             /\ req'[r].redirs = 0
             /\ store' = store ]_vars

\* C25: a rejected refresh call ends the waiting request with the refresh
\* error and starts no further refresh call; no request ever has more than
\* one refresh call.
C25_NoNestedRenewal ==
    [][\A r \in Reqs :
          /\ req'[r].refCalls <= 1
          /\ ( /\ req[r].pc = "refreshing"
               /\ req'[r].refOutcome \in {"rejected", "rejectedReuse"} )
             => /\ req'[r].pc = "done"
                /\ req'[r].result = "RefreshError"
                /\ req'[r].refCalls = req[r].refCalls ]_vars

\* A refresh call was rejected and its request ended with the refresh error
\* after that one call.
C25_Witness ==
    \E r \in Reqs :
        /\ req[r].result = "RefreshError"
        /\ req[r].refOutcome = "rejected"
        /\ req[r].refCalls = 1
        /\ req[r].redirs = 1

\* C23: a refresh call or login call that was in flight when logout() ran
\* writes no token into the store when it completes: the step that completes
\* it leaves the store as it was or empty.
C23_LogoutStaysEmpty ==
    [][\A r \in Reqs :
          (req[r].stale /\ ~req'[r].stale)
          => (store' = store \/ store' = EmptyStore)]_vars

\* C30: when the refresh call of request r is answered after the answer to a
\* refresh call issued later, whose tokens the store holds, the store keeps
\* those tokens.
C30_LatestRenewalWins ==
    [][\A r, r2 \in Reqs :
          ( /\ req[r].pc = "refreshing"
            /\ req[r].refOutcome = "pending"
            /\ req'[r].refOutcome = "ok"
            /\ req[r2].refOutcome = "ok"
            /\ getToken(store) = req[r2].refResp.access
            /\ IssuedAt(r2) > IssuedAt(r) )
          => store' = store]_vars

\* C26: session consistency: whenever AuthState.isAuthenticated is true an
\* access token is stored.
C26_AuthenticatedHasToken ==
    authState.isAuthenticated => getToken(store) # 0

\* C27: whenever AuthState.isAuthenticated is true, user is not null.
C27_AuthenticatedHasUser ==
    authState.isAuthenticated => authState.user # 0

\* A login has resolved and clearError has run since: the state is
\* authenticated and has its user.
C27_Witness ==
    /\ ctxOp = "clearError"
    /\ loginEnd = "resolved"
    /\ authState.isAuthenticated
    /\ authState.user # 0

\* C28: when login() rejects because its getCurrentUser call failed, no
\* token is left in the store.
C28_RejectedLoginLeavesNothing ==
    [][(loginEnd = "none" /\ ctxOp' = "LoginMeFail" /\ loginEnd' = "rejected")
       => store' = EmptyStore]_vars

\* C29: once every getPlayers call has been answered and the last one issued
\* succeeded (no error is set), the players, page count and total shown are
\* those of the last call issued.
C29_LatestQueryShown ==
    (list.mounted /\ pending = {} /\ list.error = 0) => list.shown = Len(calls)

============================================================================
